---- MODULE Spec2Model ----
(***************************************************************************)
(* State-machine model of the batch indexer of eui-embeddings              *)
(* (scripts/index/index_eui_icons.py): version gate, completeness check,   *)
(* per-icon render/embed/write pipeline and version marker.                *)
(***************************************************************************)
EXTENDS Integers, Sequences, FiniteSets, TLC

\* ------------------------------------------------------------------ bounds
\* number of batch runs (invocations of main) in one behaviour
MaxRuns == 3
\* number of adverse environment outcomes (failed call, raised exception,
\* unreadable file, missing configuration) in one behaviour
MaxFaults == 1

\* ------------------------------------------------------------- input sets
Tags == {"v1", "v2"}
IconNames == {"a", "b"}
\* values of --limit; 0 stands for "no --limit" (args.limit is None or 0)
LimitValues == {0, 1}

\* Python None, as returned by read_processed_version
None == "None"
\* the version file does not exist / exists with empty content
Absent == "absent"
Empty == ""

EmbeddingFields ==
  {"icon_image_embedding", "icon_svg_embedding",
   "token_image_embedding", "token_svg_embedding"}

Kinds == {"icon_image", "icon_svg", "token_image", "token_svg"}

\* manifest snapshot of each release: the name -> filename map of icon_map.ts
\* in file order, and the svg files of the checkout as <<directory, basename>>.
\* A release tag names one snapshot; v2 maps two icon names to one filename.
ManifestAt(tag) ==
  IF tag = "v1"
  THEN [map |-> << <<"a", "f">>, <<"b", "g">> >>,
        svgs |-> << <<"d", "f">>, <<"d", "g">>, <<"d", "h">> >>]
  ELSE [map |-> << <<"a", "f">>, <<"b", "f">> >>,
        svgs |-> << <<"d", "f">> >>]

\* upstream releases only advance: the latest tag never goes back
TagLeq(s, t) == s = t \/ (s = "v1" /\ t = "v2")

\* ------------------------------------------------------------ pure helpers
\* read_processed_version: None when the file is absent, unreadable or empty
read_processed_version(file, io_ok) ==
  IF file = Absent THEN None
  ELSE IF ~io_ok THEN None
  ELSE IF file = Empty THEN None
  ELSE file

\* write_processed_version: the write may fail before the file is opened
\* (file unchanged) or after it was truncated (file left empty)
write_processed_version(file, version, o) ==
  CASE o = "ok" -> version
    [] o = "open_fail" -> file
    [] o = "write_fail" -> Empty

\* doc_id = f"{icon_name}_{release_tag}"; tags hold no underscore, so the id
\* determines the pair
DocId(icon_name, release_tag) == <<icon_name, release_tag>>

IconFields == {"icon_image_embedding", "icon_svg_embedding"}
TokenFields == {"token_image_embedding", "token_svg_embedding"}

\* mutants of DocComplete: the token fields are never required / the release
\* of the document is never compared
DocComplete_IconsOnly(source, release_tag, skip_tokens) ==
  IF ~(IconFields \subseteq source.fields) THEN FALSE
  ELSE IF source.release_tag # release_tag THEN FALSE
  ELSE TRUE

DocComplete_AnyRelease(source, release_tag, skip_tokens) ==
  IF ~(IconFields \subseteq source.fields) THEN FALSE
  ELSE IF ~skip_tokens /\ ~(TokenFields \subseteq source.fields) THEN FALSE
  ELSE TRUE

\* the per-document test of check_all_icons_indexed
DocComplete(source, release_tag, skip_tokens) ==
  IF ~(IconFields \subseteq source.fields) THEN FALSE
  ELSE IF ~skip_tokens /\ ~(TokenFields \subseteq source.fields) THEN FALSE
  ELSE IF source.release_tag # release_tag THEN FALSE
  ELSE TRUE

\* check_all_icons_indexed: fault = k > 0 makes the engine call for the k-th
\* entry raise
RECURSIVE CheckFrom(_, _, _, _, _, _)
CheckFrom(es, matched_icons, release_tag, skip_tokens, fault, k) ==
  IF k > Len(matched_icons) THEN TRUE
  ELSE LET doc_id == DocId(matched_icons[k][2], release_tag) IN
       IF fault = k THEN FALSE
       ELSE IF doc_id \notin DOMAIN es THEN FALSE
       ELSE IF ~DocComplete(es[doc_id], release_tag, skip_tokens) THEN FALSE
       ELSE CheckFrom(es, matched_icons, release_tag, skip_tokens, fault, k + 1)

\* mutant of check_all_icons_indexed: only the first entry is looked at
check_all_icons_indexed_FirstOnly(es_client, es, matched_icons, release_tag, skip_tokens, fault) ==
  IF ~es_client THEN FALSE
  ELSE CheckFrom(es, SubSeq(matched_icons, 1, 1), release_tag, skip_tokens, fault, 1)

check_all_icons_indexed(es_client, es, matched_icons, release_tag, skip_tokens, fault) ==
  IF ~es_client THEN FALSE
  ELSE CheckFrom(es, matched_icons, release_tag, skip_tokens, fault, 1)

\* mutant of create_filename_to_icon_name_map: the first entry of a filename
\* is kept
create_filename_to_icon_name_map_FirstWins(type_to_path_map) ==
  [f \in {type_to_path_map[i][2] : i \in 1..Len(type_to_path_map)} |->
     LET is == {i \in 1..Len(type_to_path_map) : type_to_path_map[i][2] = f}
         first == CHOOSE i \in is : \A j \in is : i <= j
     IN type_to_path_map[first][1]]

\* create_filename_to_icon_name_map: later entries overwrite earlier ones
create_filename_to_icon_name_map(type_to_path_map) ==
  [f \in {type_to_path_map[i][2] : i \in 1..Len(type_to_path_map)} |->
     LET is == {i \in 1..Len(type_to_path_map) : type_to_path_map[i][2] = f}
         last == CHOOSE i \in is : \A j \in is : j <= i
     IN type_to_path_map[last][1]]

\* the matching loop of main: <<svg_file, icon_name, filename>> per matched file
RECURSIVE MatchFrom(_, _, _)
MatchFrom(svg_files, filename_to_icon, k) ==
  IF k > Len(svg_files) THEN << >>
  ELSE LET filename == svg_files[k][2]
           rest == MatchFrom(svg_files, filename_to_icon, k + 1)
       IN IF filename \in DOMAIN filename_to_icon
          THEN << <<svg_files[k], filename_to_icon[filename], filename>> >> \o rest
          ELSE rest

MatchIcons(man) ==
  MatchFrom(man.svgs, create_filename_to_icon_name_map(man.map), 1)

\* the --limit truncation of main
ApplyLimit(matched_icons, limit) ==
  IF limit > 0
  THEN SubSeq(matched_icons, 1, IF limit < Len(matched_icons) THEN limit ELSE Len(matched_icons))
  ELSE matched_icons

\* mutants of GateDecision: the result of the completeness check is taken the
\* wrong way round / --force is not looked at
GateDecision_Inverted(processed_version, latest_tag, force, es_client, complete) ==
  IF processed_version = latest_tag /\ ~force
  THEN IF es_client
       THEN IF complete THEN "process" ELSE "skip"
       ELSE "process"
  ELSE "process"

GateDecision_IgnoresForce(processed_version, latest_tag, force, es_client, complete) ==
  IF processed_version = latest_tag
  THEN IF es_client
       THEN IF complete THEN "skip" ELSE "process"
       ELSE "process"
  ELSE "process"

\* the version gate of main: "skip" or "process"
GateDecision(processed_version, latest_tag, force, es_client, complete) ==
  IF processed_version = latest_tag /\ ~force
  THEN IF es_client
       THEN IF complete THEN "skip" ELSE "process"
       ELSE "process"
  ELSE "process"

\* mutant of Document: the icon SVG embedding is left out of the document
Document_WithoutIconSvg(release_tag, embeddings) ==
  [release_tag |-> release_tag, fields |-> embeddings \ {"icon_svg_embedding"}]

\* mutant of index_embedding: the document is always indexed anew
index_embedding_Overwriting(es, doc_id, document) ==
  [d \in DOMAIN es \cup {doc_id} |-> IF d = doc_id THEN document ELSE es[d]]

\* mutant of index_embedding: the write replaces the whole index
index_embedding_Replacing(es, doc_id, document) ==
  [d \in {doc_id} |-> document]

\* index_embedding: the document sent and its effect on the store
Document(release_tag, embeddings) ==
  [release_tag |-> release_tag, fields |-> embeddings]

index_embedding(es, doc_id, document) ==
  IF doc_id \in DOMAIN es
  THEN [es EXCEPT ![doc_id] =
          [release_tag |-> document.release_tag,
           fields |-> es[doc_id].fields \cup document.fields]]
  ELSE [d \in DOMAIN es \cup {doc_id} |-> IF d = doc_id THEN document ELSE es[d]]

\* mutant of ShouldWriteVersion: --index is not looked at
ShouldWriteVersion_IgnoresIndex(successful, index) == successful > 0

\* mutant of ShouldWriteVersion: one clean icon is not enough
ShouldWriteVersion_NeedsTwo(successful, index) == successful > 1 /\ index

\* mutant of ExitStatus: one failed icon is not enough
ExitStatus_NeedsTwo(failed) == IF failed > 1 THEN 1 ELSE 0

\* the summary of main
Successful(rs) == Cardinality({i \in 1..Len(rs) : rs[i].success})
Failed(rs) == Len(rs) - Successful(rs)
ShouldWriteVersion(successful, index) == successful > 0 /\ index
ExitStatus(failed) == IF failed > 0 THEN 1 ELSE 0

ScopeKinds(skip_tokens) ==
  IF skip_tokens THEN {"icon_image", "icon_svg"} ELSE Kinds

\* ------------------------------------------------------------------- state
VARIABLES
  marker,             \* content of data/processed_version.txt (VERSION_FILE)
  es,                 \* the icons index: doc_id -> [release_tag, fields]
  pc,                 \* position of main / process_icon
  cfg,                \* arguments and environment of the current run
  matched_icons,      \* main's matched_icons
  processed_version,  \* main's processed_version
  decision,           \* outcome of the version gate: "none", "skip", "process"
  check_result,       \* what check_all_icons_indexed returned: "none" if not called
  check_fault,        \* the entry at which the check's engine call raised, or 0
  idx,                \* 1-based position in matched_icons
  results,            \* main's results list
  calls,              \* outbound calls of the current run, in order
  version_writes,     \* arguments of write_processed_version in the current run
  exit_status,        \* -1 while running, else the status passed to sys.exit
  ended,              \* where the run ended: "abort", "skip", "setup", "summary"
  prev,               \* summary of the run before the current one
  faults,             \* adverse outcomes used so far
  runs,               \* runs started so far
  repo_tag            \* latest release tag of the EUI repository

vars ==
  <<marker, es, pc, cfg, matched_icons, processed_version, decision,
    check_result, check_fault, idx, results, calls, version_writes,
    exit_status, ended, prev, faults, runs, repo_tag>>

\* state of the search service (embed.py), a separate process
VARIABLES
  valid_api_keys,     \* _valid_api_keys after load_api_keys
  search_es_client,   \* whether embed.py's es_client was created
  spc,                \* position of the request in the service
  request,            \* the request being served
  response,           \* the response sent for it
  engine_log,         \* requests the service sent to the search engine for it
  outcome             \* what the engine answered to them

searchVars ==
  <<valid_api_keys, search_es_client, spc, request, response, engine_log, outcome>>

\* state of the normalization functions the service calls on a query payload
VARIABLES
  npc,                \* "input", or the function that produced the result
  svg_content,        \* the svg markup given
  svg_result,         \* the markup after canonicalization
  image_in,           \* the luminance of the image given, one row of pixels
  image_result        \* what normalize_search_image computed

normVars == <<npc, svg_content, svg_result, image_in, image_result>>

NoSvg == [viewBox |-> "none", size |-> "none", paths |-> << >>]
NoSvgResult ==
  [viewBox |-> "none", rects |-> 0, rect_box |-> "none", paths |-> << >>]
NoImage == << >>
NoImageResult ==
  [is_dark_background |-> FALSE, inverted |-> << >>, min_val |-> 0, max_val |-> 0,
   divisor |-> -1, rescaled |-> << >>, resized |-> << >>]

NormAtRest ==
  /\ npc = "input"
  /\ svg_content = NoSvg
  /\ svg_result = NoSvgResult
  /\ image_in = NoImage
  /\ image_result = NoImageResult

\* SearchRequest.fields: Optional[List[str]]
NoFields == [given |-> FALSE, list |-> << >>]

\* hits.total of the engine: a bare count or an object with a value
NoTotal == [shape |-> "none", value |-> 0]

NoRequest ==
  [endpoint |-> "none", api_key |-> None, type |-> "none", query |-> Empty,
   icon_type |-> None, fields |-> NoFields]

NoResponse ==
  [status |-> 0, handled |-> FALSE, has_results |-> FALSE, results |-> << >>,
   total |-> NoTotal]

NoOutcome ==
  [sparse |-> "none", search |-> "none", hits |-> << >>, total |-> NoTotal]

\* the service before it is started / between two requests
SearchAtRest ==
  /\ valid_api_keys = {}
  /\ search_es_client = FALSE
  /\ spc = "idle"
  /\ request = NoRequest
  /\ response = NoResponse
  /\ engine_log = << >>
  /\ outcome = NoOutcome

runVars ==
  <<cfg, matched_icons, processed_version, decision, check_result, check_fault,
    prev, runs, repo_tag>>

NoConfig ==
  [latest_tag |-> "v1", force |-> FALSE, index |-> FALSE, skip_tokens |-> FALSE,
   limit |-> 0, es_client |-> FALSE]

NoPrev ==
  [valid |-> FALSE, latest_tag |-> "v1",
   skip_tokens |-> FALSE, any_error |-> FALSE, all_clean |-> FALSE]

BatchAtRest ==
  /\ marker = Absent
  /\ es = [d \in {} |-> 0]
  /\ pc = "idle"
  /\ cfg = NoConfig
  /\ matched_icons = << >>
  /\ processed_version = None
  /\ decision = "none"
  /\ check_result = "none"
  /\ check_fault = 0
  /\ idx = 1
  /\ results = << >>
  /\ calls = << >>
  /\ version_writes = << >>
  /\ exit_status = -1
  /\ ended = "none"
  /\ prev = NoPrev
  /\ faults = 0
  /\ runs = 0
  /\ repo_tag = "v1"

Init == BatchAtRest /\ SearchAtRest /\ NormAtRest

\* an adverse outcome is taken only while the budget lasts
Charge(adverse) ==
  /\ adverse => faults < MaxFaults
  /\ faults' = IF adverse THEN faults + 1 ELSE faults

\* what the next run remembers of the run that just ended: whether it reached
\* the summary with an icon in error, or indexed every matched icon cleanly
AnyError == ended = "summary" /\ Failed(results) > 0
AllClean ==
  /\ ended = "summary"
  /\ cfg.index
  /\ Failed(results) = 0
  /\ Len(results) > 0
  /\ Len(results) = Len(MatchIcons(ManifestAt(cfg.latest_tag)))

PrevOf ==
  IF pc = "done" /\ (AnyError \/ AllClean)
  THEN [valid |-> TRUE, latest_tag |-> cfg.latest_tag,
        skip_tokens |-> cfg.skip_tokens,
        any_error |-> AnyError, all_clean |-> AllClean]
  ELSE NoPrev

\* ----------------------------------------------------------------- main
\* main, argument parsing to the matching loop: repository, tag and manifest
\* discovery; any failure there exits with status 1
StartRun ==
  /\ pc = "idle"
  /\ UNCHANGED <<searchVars, normVars>>
  /\ runs < MaxRuns
  /\ \E latest_tag \in Tags, force \in BOOLEAN,
        index \in BOOLEAN, skip_tokens \in BOOLEAN, limit \in LimitValues,
        es_client \in BOOLEAN, discovered \in BOOLEAN :
       /\ TagLeq(repo_tag, latest_tag)
       /\ repo_tag' = latest_tag
       /\ Charge(~discovered \/ ~es_client)
       /\ ~(~discovered /\ ~es_client)
       /\ cfg' = [latest_tag |-> latest_tag, force |-> force,
                  index |-> index, skip_tokens |-> skip_tokens,
                  limit |-> limit, es_client |-> es_client]
       /\ IF discovered
          THEN /\ matched_icons' = MatchIcons(ManifestAt(latest_tag))
               /\ pc' = "gate"
               /\ exit_status' = -1
               /\ ended' = "none"
          ELSE /\ matched_icons' = << >>
               /\ pc' = "done"
               /\ exit_status' = 1
               /\ ended' = "abort"
  /\ runs' = runs + 1
  /\ UNCHANGED <<marker, es, processed_version, decision, check_result,
                 check_fault, idx, results, calls, version_writes, prev>>

\* main, the version gate
CheckVersion ==
  /\ pc = "gate"
  /\ UNCHANGED <<searchVars, normVars>>
  /\ \E read_ok \in BOOLEAN, fault \in 0..Len(matched_icons) :
       LET pv == read_processed_version(marker, read_ok)
           checked == pv = cfg.latest_tag /\ ~cfg.force /\ cfg.es_client
           complete == check_all_icons_indexed(cfg.es_client, es, matched_icons,
                                               cfg.latest_tag, cfg.skip_tokens, fault)
           d == GateDecision(pv, cfg.latest_tag, cfg.force, cfg.es_client, complete)
       IN /\ ~read_ok => marker # Absent
          /\ fault # 0 => checked
          /\ Charge(~read_ok \/ fault # 0)
          /\ processed_version' = pv
          /\ check_result' = IF ~checked THEN "none"
                             ELSE IF complete THEN "true" ELSE "false"
          /\ check_fault' = fault
          /\ decision' = d
          /\ IF d = "skip"
             THEN pc' = "done" /\ exit_status' = 0 /\ ended' = "skip"
             ELSE pc' = "setup" /\ UNCHANGED <<exit_status, ended>>
  /\ UNCHANGED <<marker, es, cfg, matched_icons, idx, results, calls,
                 version_writes, prev, runs, repo_tag>>

\* main, --limit and the search-engine client of a run with --index
Setup ==
  /\ pc = "setup"
  /\ UNCHANGED <<searchVars, normVars>>
  /\ \E info_ok \in BOOLEAN :
       /\ ~info_ok => cfg.index /\ cfg.es_client
       /\ Charge(~info_ok)
       /\ matched_icons' = ApplyLimit(matched_icons, cfg.limit)
       /\ IF cfg.index /\ (~cfg.es_client \/ ~info_ok)
          THEN pc' = "done" /\ exit_status' = 1 /\ ended' = "setup"
          ELSE /\ pc' = IF matched_icons' = << >> THEN "summary" ELSE "icons"
               /\ UNCHANGED <<exit_status, ended>>
  /\ UNCHANGED <<marker, es, cfg, processed_version, decision, check_result,
                 check_fault, idx, results, calls, version_writes, prev, runs,
                 repo_tag>>

\* ---------------------------------------------------------- process_icon
\* The adverse outcomes of one call of process_icon are drawn as a plan: a set
\* of <<op, kind, outcome>>, at most one per call. For a render or embed call
\* "none" is a request error, a missing key or an empty vector (None is
\* returned) and "raise" an exception other than RequestException (an
\* undecodable payload); reading the svg file and the engine calls can raise.
FaultPoints(skip_tokens, index) ==
  {<<"read", "svg">>, <<"render", "icon_image">>, <<"embed", "icon_image">>,
   <<"embed", "icon_svg">>}
  \cup (IF skip_tokens THEN {}
        ELSE {<<"render", "token_image">>, <<"embed", "token_image">>,
              <<"render", "token_svg">>, <<"embed", "token_svg">>})
  \cup (IF index THEN {<<"exists", "document">>, <<"write", "document">>} ELSE {})

FaultOutcomes(point) ==
  IF point[1] \in {"render", "embed"} THEN {"none", "raise"} ELSE {"raise"}

FaultChoices(skip_tokens, index) ==
  UNION {{<<p[1], p[2], o>> : o \in FaultOutcomes(p)} :
           p \in FaultPoints(skip_tokens, index)}

RECURSIVE PlansUpTo(_, _)
PlansUpTo(choices, k) ==
  IF k = 0 THEN {{}}
  ELSE LET smaller == PlansUpTo(choices, k - 1)
       IN smaller \cup
          UNION {{p \cup {x} : x \in {c \in choices :
                                   \A y \in p : ~(y[1] = c[1] /\ y[2] = c[2])}} :
                   p \in smaller}

Outcome(plan, op, kind) ==
  IF \E x \in plan : x[1] = op /\ x[2] = kind
  THEN (CHOOSE x \in plan : x[1] = op /\ x[2] = kind)[3]
  ELSE "ok"

\* an outbound call of the run: op is "render", "embed", "exists" or "write";
\* target is <<icon_name>> for the renderer and embedder, the doc_id for the engine
Call(i, op, kind, target, ok, fields) ==
  [op |-> op, kind |-> kind, idx |-> i, target |-> target, ok |-> ok,
   fields |-> fields]

\* the locals of process_icon: the embeddings generated, len(result["errors"]),
\* the embedding kinds begun, the calls made, whether the except handler was
\* entered, and the adverse outcomes met
Locals ==
  [embeddings |-> {}, errors |-> 0, attempted |-> {}, calls |-> << >>,
   raised |-> FALSE, used |-> 0]

\* process_icon's except handler: the exception text is appended to the errors
Raise(st) ==
  [st EXCEPT !.errors = @ + 1, !.raised = TRUE, !.used = @ + 1]

\* svg_content = read_svg_file(svg_file_path)
read_svg_file(st, o) == IF o = "ok" THEN st ELSE Raise(st)

\* mutant of render: a request that fails is sent a second time
render_Twice(st, i, icon_name, kind, o) ==
  LET call == Call(i, "render", kind, <<icon_name>>, o = "ok", {})
      made == [st EXCEPT !.calls = IF o = "none" THEN @ \o <<call, call>>
                                   ELSE Append(@, call),
                         !.attempted = @ \cup {kind}]
  IN CASE o = "ok" -> made
       [] o = "none" -> [made EXCEPT !.errors = @ + 1, !.used = @ + 1]
       [] o = "raise" -> [made EXCEPT !.errors = @ + 1, !.raised = TRUE, !.used = @ + 1]

\* render_icon_image / render_icon_svg and the caller's error append
render(st, i, icon_name, kind, o) ==
  LET made == [st EXCEPT !.calls = Append(@, Call(i, "render", kind, <<icon_name>>,
                                                   o = "ok", {})),
                         !.attempted = @ \cup {kind}]
  IN CASE o = "ok" -> made
       [] o = "none" -> [made EXCEPT !.errors = @ + 1, !.used = @ + 1]
       [] o = "raise" -> Raise(made)

\* generate_embedding / generate_embedding_from_image and the caller's test
embed(st, i, icon_name, kind, field, o) ==
  LET made == [st EXCEPT !.calls = Append(@, Call(i, "embed", kind, <<icon_name>>,
                                                   o = "ok", {})),
                         !.attempted = @ \cup {kind}]
  IN CASE o = "ok" -> [made EXCEPT !.embeddings = @ \cup {field}]
       [] o = "none" -> [made EXCEPT !.errors = @ + 1, !.used = @ + 1]
       [] o = "raise" -> Raise(made)

\* mutant of RenderThenEmbed: the embedder is called before the renderer
RenderThenEmbed_EmbedFirst(st, i, icon_name, kind, field, plan) ==
  IF st.raised THEN st
  ELSE LET embedded == [st EXCEPT
                          !.calls = Append(@, Call(i, "embed", kind, <<icon_name>>,
                                                   Outcome(plan, "embed", kind) = "ok", {})),
                          !.attempted = @ \cup {kind}]
           o == Outcome(plan, "render", kind)
           rendered == [embedded EXCEPT
                          !.calls = Append(@, Call(i, "render", kind, <<icon_name>>,
                                                   o = "ok", {}))]
       IN CASE o = "ok" /\ Outcome(plan, "embed", kind) = "ok" ->
                 [rendered EXCEPT !.embeddings = @ \cup {field}]
            [] o = "raise" \/ Outcome(plan, "embed", kind) = "raise" ->
                 [rendered EXCEPT !.errors = @ + 1, !.raised = TRUE, !.used = @ + 1]
            [] OTHER -> [rendered EXCEPT !.errors = @ + 1, !.used = @ + 1]

\* steps 1, 3a and 3b of process_icon: render, then embed what was rendered
RenderThenEmbed(st, i, icon_name, kind, field, plan) ==
  IF st.raised THEN st
  ELSE LET rendered == render(st, i, icon_name, kind, Outcome(plan, "render", kind))
       IN IF Outcome(plan, "render", kind) # "ok" THEN rendered
          ELSE embed(rendered, i, icon_name, kind, field, Outcome(plan, "embed", kind))

\* step 2 of process_icon: embed the original svg text
EmbedSvgText(st, i, icon_name, kind, field, plan) ==
  IF st.raised THEN st
  ELSE embed(st, i, icon_name, kind, field, Outcome(plan, "embed", kind))

\* mutant of TokensInScope: the token steps are skipped in every scope
TokensInScope_Never(skip_tokens) == FALSE

\* "if not skip_tokens"
TokensInScope(skip_tokens) == ~skip_tokens

\* the dry-run branch of process_icon: "indexed" without a write
DryRunIndexed(embs) ==
  "icon_image_embedding" \in embs \/ "icon_svg_embedding" \in embs

Result(icon_name, st, errs, indexed) ==
  [icon_name |-> icon_name, errors |-> errs, success |-> errs = 0,
   indexed |-> indexed, attempted |-> st.attempted, embeddings |-> st.embeddings,
   raised |-> st.raised]

\* process_icon: the result, the calls made, the index afterwards and the
\* number of adverse outcomes met
process_icon(i, icon_name, release_tag, store, index, es_client, skip_tokens, plan) ==
  LET s0 == read_svg_file(Locals, Outcome(plan, "read", "svg"))
      s1 == RenderThenEmbed(s0, i, icon_name, "icon_image", "icon_image_embedding", plan)
      s2 == EmbedSvgText(s1, i, icon_name, "icon_svg", "icon_svg_embedding", plan)
      s3 == IF TokensInScope(skip_tokens)
            THEN RenderThenEmbed(s2, i, icon_name, "token_image",
                                 "token_image_embedding", plan)
            ELSE s2
      s4 == IF TokensInScope(skip_tokens)
            THEN RenderThenEmbed(s3, i, icon_name, "token_svg",
                                 "token_svg_embedding", plan)
            ELSE s3
      doc_id == DocId(icon_name, release_tag)
      document == Document(release_tag, s4.embeddings)
      probed == Outcome(plan, "exists", "document") = "ok"
      written == Outcome(plan, "write", "document") = "ok"
      probe == Call(i, "exists", "document", doc_id, probed, {})
      write == Call(i, "write", "document", doc_id, written, document.fields)
  IN IF s4.raised
     THEN [result |-> Result(icon_name, s4, s4.errors, FALSE),
           calls |-> s4.calls, es |-> store, used |-> s4.used]
     ELSE IF index /\ es_client
     THEN IF ~probed
          THEN [result |-> Result(icon_name, s4, s4.errors + 1, FALSE),
                calls |-> Append(s4.calls, probe), es |-> store,
                used |-> s4.used + 1]
          ELSE IF ~written
          THEN [result |-> Result(icon_name, s4, s4.errors + 1, FALSE),
                calls |-> s4.calls \o <<probe, write>>, es |-> store,
                used |-> s4.used + 1]
          ELSE [result |-> Result(icon_name, s4, s4.errors, TRUE),
                calls |-> s4.calls \o <<probe, write>>,
                es |-> index_embedding(store, doc_id, document),
                used |-> s4.used]
     ELSE [result |-> Result(icon_name, s4, s4.errors,
                             DryRunIndexed(s4.embeddings)),
           calls |-> s4.calls, es |-> store, used |-> s4.used]

\* main, one turn of the loop over matched_icons: process_icon and
\* results.append
ProcessIcon ==
  /\ pc = "icons"
  /\ UNCHANGED <<searchVars, normVars>>
  /\ \E plan \in PlansUpTo(FaultChoices(cfg.skip_tokens, cfg.index),
                           MaxFaults - faults) :
       LET done == process_icon(idx, matched_icons[idx][2], cfg.latest_tag, es,
                                cfg.index, cfg.es_client, cfg.skip_tokens, plan)
       IN /\ done.used = Cardinality(plan)
          /\ faults' = faults + Cardinality(plan)
          /\ es' = done.es
          /\ calls' = calls \o done.calls
          /\ results' = Append(results, done.result)
  /\ idx' = IF idx = Len(matched_icons) THEN 1 ELSE idx + 1
  /\ pc' = IF idx = Len(matched_icons) THEN "summary" ELSE "icons"
  /\ UNCHANGED <<marker, runVars, version_writes, exit_status, ended>>

\* main, the summary: the version marker and the exit status
Summary ==
  /\ pc = "summary"
  /\ UNCHANGED <<searchVars, normVars>>
  /\ \E o \in {"ok", "open_fail", "write_fail"} :
       LET successful == Successful(results)
           failed == Failed(results)
           write == ShouldWriteVersion(successful, cfg.index)
       IN /\ o # "ok" => write
          /\ Charge(o # "ok")
          /\ IF write
             THEN /\ marker' = write_processed_version(marker, cfg.latest_tag, o)
                  /\ version_writes' = Append(version_writes, cfg.latest_tag)
             ELSE UNCHANGED <<marker, version_writes>>
          /\ exit_status' = ExitStatus(failed)
  /\ pc' = "done"
  /\ ended' = "summary"
  /\ UNCHANGED <<es, runVars, idx, results, calls>>

\* sys.exit: the process ends and only the marker file and the index remain
Exit ==
  /\ pc = "done"
  /\ UNCHANGED <<searchVars, normVars>>
  /\ runs < MaxRuns
  /\ pc' = "idle"
  /\ prev' = PrevOf
  /\ cfg' = NoConfig
  /\ matched_icons' = << >>
  /\ processed_version' = None
  /\ decision' = "none"
  /\ check_result' = "none"
  /\ check_fault' = 0
  /\ idx' = 1
  /\ results' = << >>
  /\ calls' = << >>
  /\ version_writes' = << >>
  /\ exit_status' = -1
  /\ ended' = "none"
  /\ UNCHANGED <<marker, es, faults, runs, repo_tag>>

Next ==
  \/ StartRun
  \/ CheckVersion
  \/ Setup
  \/ ProcessIcon
  \/ Summary
  \/ Exit

Spec == Init /\ [][Next]_vars

TypeOK ==
  /\ marker \in {Absent, Empty} \cup Tags
  /\ exit_status \in {-1, 0, 1}
  /\ faults \in 0..MaxFaults
  /\ runs \in 0..MaxRuns

\* --------------------------------------------- completeness check, alone
\* number of manifest entries given to check_all_icons_indexed
MaxEntries == 2

Entry(icon_name) == << <<"d", icon_name>>, icon_name, icon_name >>

RECURSIVE EntryLists(_)
EntryLists(n) ==
  IF n = 0 THEN {<< >>}
  ELSE LET shorter == EntryLists(n - 1)
       IN shorter \cup {Append(l, Entry(i)) : l \in {x \in shorter : Len(x) = n - 1},
                                             i \in IconNames}

Sources == [release_tag : Tags, fields : SUBSET EmbeddingFields]

Stores(tag) ==
  UNION {[ids -> Sources] : ids \in SUBSET {DocId(i, tag) : i \in IconNames}}

\* the gate of a non-forced run whose marker equals the latest tag, over any
\* list of entries and any content of the index
InitCheck ==
  /\ \E tag \in Tags, skip_tokens \in BOOLEAN :
       /\ cfg = [latest_tag |-> tag, force |-> FALSE, index |-> FALSE,
                 skip_tokens |-> skip_tokens, limit |-> 0, es_client |-> TRUE]
       /\ marker = tag
       /\ es \in Stores(tag)
  /\ matched_icons \in EntryLists(MaxEntries)
  /\ pc = "gate"
  /\ processed_version = None
  /\ decision = "none"
  /\ check_result = "none"
  /\ check_fault = 0
  /\ idx = 1
  /\ results = << >>
  /\ calls = << >>
  /\ version_writes = << >>
  /\ exit_status = -1
  /\ ended = "none"
  /\ prev = NoPrev
  /\ faults = 0
  /\ runs = 1
  /\ repo_tag = cfg.latest_tag
  /\ SearchAtRest
  /\ NormAtRest

NextCheck == CheckVersion

SpecCheck == InitCheck /\ [][NextCheck]_vars

\* ------------------------------------------------- vocabulary of the claims
Clean(r) == r.errors = 0
SomeError == \E i \in 1..Len(results) : ~Clean(results[i])
SomeClean == \E i \in 1..Len(results) : Clean(results[i])

RequiredFields(skip_tokens) ==
  IF skip_tokens
  THEN {"icon_image_embedding", "icon_svg_embedding"}
  ELSE {"icon_image_embedding", "icon_svg_embedding",
        "token_image_embedding", "token_svg_embedding"}

\* every entry has its document, of the right release, with the fields in scope
EveryEntryComplete(store, entries, tag, skip_tokens) ==
  \A k \in 1..Len(entries) :
    LET id == <<entries[k][2], tag>>
    IN /\ id \in DOMAIN store
       /\ store[id].release_tag = tag
       /\ RequiredFields(skip_tokens) \subseteq store[id].fields

FieldOf(kind) ==
  CASE kind = "icon_image" -> "icon_image_embedding"
    [] kind = "icon_svg" -> "icon_svg_embedding"
    [] kind = "token_image" -> "token_image_embedding"
    [] kind = "token_svg" -> "token_svg_embedding"

\* positions in the call log of the calls of one kind made for the i-th icon
CallsOf(i, ops) == {p \in 1..Len(calls) : calls[p].idx = i /\ calls[p].op \in ops}
Writes(i) == CallsOf(i, {"write"})
SubSteps(i) == CallsOf(i, {"render", "embed"})

\* the embedding kinds of a finished icon that had a failing render or embed
FailedKinds(r) == {k \in r.attempted : FieldOf(k) \notin r.embeddings}

\* the run is past the gate / the gate has just decided
GatePassed == decision # "none"
AtGate == pc = "setup" \/ ended = "skip"

\* the run before this one was for the same release and variant scope
SameAsPrev ==
  /\ prev.valid
  /\ prev.latest_tag = cfg.latest_tag
  /\ prev.skip_tokens = cfg.skip_tokens

\* ------------------------------------------------------------------ C1
\* C1 (as stated): the marker changes only in a run none of whose icons has an
\* error, and a tag written into it is the tag of that run.
C1_MarkerOnlyByCleanRun ==
  [][marker' # marker =>
       /\ marker' \in Tags => marker' = cfg.latest_tag
       /\ \A i \in 1..Len(results) : Clean(results[i])]_vars

\* ------------------------------------------------------------------ C2
\* C2 (as stated): a non-forced run that follows a run with an icon in error,
\* for the same release and scope, always takes Process.
C2_AlwaysProcessAfterError ==
  (GatePassed /\ SameAsPrev /\ prev.any_error /\ ~cfg.force)
    => decision = "process"

\* C2 (amended): such a run takes Skip only when every matched icon's document
\* is complete for the scope; with a document lacking a field it takes Process
\* and, reaching the summary, has re-attempted every icon of its list.
C2_ProcessAfterErrorUnlessComplete ==
  (GatePassed /\ SameAsPrev /\ prev.any_error /\ ~cfg.force)
    => /\ decision = "skip" =>
            EveryEntryComplete(es, matched_icons, cfg.latest_tag, cfg.skip_tokens)
       /\ (decision = "process" /\ ended = "summary") =>
            /\ Len(results) = Len(matched_icons)
            /\ \A i \in 1..Len(results) : results[i].icon_name = matched_icons[i][2]

C2_Witness ==
  /\ AtGate /\ SameAsPrev /\ prev.any_error /\ ~cfg.force
  /\ processed_version = cfg.latest_tag
  /\ check_result = "false"
  /\ decision = "process"

\* ------------------------------------------------------------------ C3
\* C3: when the marker read equals the latest tag, the run is not forced and
\* the completeness check returned true, the run has skipped: no call of any
\* kind, no result, no marker write, marker still the latest tag, exit status 0.
C3_SkipDoesNothing ==
  (processed_version = cfg.latest_tag /\ ~cfg.force /\ check_result = "true")
    => /\ decision = "skip"
       /\ ended = "skip"
       /\ pc = "done"
       /\ calls = << >>
       /\ results = << >>
       /\ version_writes = << >>
       /\ marker = cfg.latest_tag
       /\ exit_status = 0

C3_Witness ==
  /\ ended = "skip"
  /\ check_result = "true"
  /\ exit_status = 0
  /\ Len(matched_icons) = 2

\* ------------------------------------------------------------------ C4
\* C4: right after the gate, Skip was taken only if the marker holds the latest
\* tag, the run is not forced and every matched icon is complete in the index;
\* whenever one of the three fails, Process was taken.
GateConditions ==
  /\ marker \in Tags
  /\ marker = cfg.latest_tag
  /\ ~cfg.force
  /\ EveryEntryComplete(es, matched_icons, cfg.latest_tag, cfg.skip_tokens)

C4_SkipOnlyIfAllThree ==
  AtGate => /\ decision \in {"skip", "process"}
            /\ decision = "skip" => (GateConditions /\ cfg.es_client)
            /\ ~GateConditions => decision = "process"

C4_Witness ==
  /\ pc = "setup"
  /\ marker = cfg.latest_tag
  /\ ~cfg.force
  /\ cfg.es_client
  /\ check_fault = 0
  /\ decision = "process"

\* ------------------------------------------------------------------ C5
\* C5: right after the gate called it, the completeness check has returned true
\* exactly when no engine call raised
\* and every entry has its document, of the right release, with both icon
\* fields and, with tokens in scope, both token fields.
C5_CheckIff ==
  (AtGate /\ check_result # "none") =>
    (check_result = "true" <=>
       /\ check_fault = 0
       /\ EveryEntryComplete(es, matched_icons, cfg.latest_tag, cfg.skip_tokens))

C5_Witness ==
  /\ check_result = "true"
  /\ ~cfg.skip_tokens
  /\ Len(matched_icons) = 2
  /\ matched_icons[1][2] # matched_icons[2][2]

\* ------------------------------------------------------------------ C6
\* C6 (as stated): an icon with a failed render or embed has that failure in
\* its error list, had every embedding kind of the scope attempted and, with
\* indexing enabled, had its document written; the batch reaches every icon.
C6_FailureIsLocal ==
  /\ \A i \in 1..Len(results) :
       FailedKinds(results[i]) # {} =>
         /\ results[i].errors >= 1
         /\ results[i].attempted = ScopeKinds(cfg.skip_tokens)
         /\ cfg.index => Writes(i) # {}
  /\ ended = "summary" => Len(results) = Len(matched_icons)

C8_ExitStatusIffError ==
  ended = "summary" =>
    /\ exit_status \in {0, 1}
    /\ exit_status # 0 <=> SomeError

C8_Witness ==
  /\ ended = "summary"
  /\ exit_status = 1
  /\ SomeClean

\* ------------------------------------------------------------------ C9
\* C9: the marker write happens at most once per run, in a step taken when
\* every icon of the list has its result, with the latest tag as argument; the
\* marker changes in no other step; and a run with indexing enabled that
\* reached the summary with a clean icon has made that write.
C9_MarkerWrittenOnceAtEnd ==
  /\ [][(version_writes' # version_writes /\ version_writes' # << >>) =>
          /\ version_writes = << >>
          /\ version_writes' = <<cfg.latest_tag>>
          /\ Len(results) = Len(matched_icons)
          /\ results' = results
          /\ ended' = "summary"]_vars
  /\ [][marker' # marker => version_writes' # version_writes]_vars
  /\ []((ended = "summary" /\ cfg.index /\ SomeClean) =>
          version_writes = <<cfg.latest_tag>>)

C9_Witness ==
  /\ ended = "summary"
  /\ version_writes = <<cfg.latest_tag>>
  /\ marker = cfg.latest_tag
  /\ Len(results) = 2
  /\ SomeError

\* ------------------------------------------------------------------ C10
\* C10 (as stated): a non-forced run that follows a run which indexed every
\* matched icon of the same release and scope without error takes Skip and
\* makes no call.
C10_SkipAfterCleanRun ==
  (GatePassed /\ SameAsPrev /\ prev.all_clean /\ ~cfg.force)
    => (decision = "skip" /\ calls = << >>)

\* C10 (amended): it does so provided the marker write of the first run
\* succeeded and is read back, the engine is configured and no engine call of
\* the completeness check raises.
C10_SkipAfterCleanRunIfReadable ==
  (/\ GatePassed /\ SameAsPrev /\ prev.all_clean /\ ~cfg.force
   /\ processed_version = cfg.latest_tag
   /\ cfg.es_client
   /\ check_fault = 0)
    => /\ decision = "skip"
       /\ pc = "done"
       /\ calls = << >>
       /\ version_writes = << >>
       /\ exit_status = 0

C10_Witness ==
  /\ SameAsPrev /\ prev.all_clean /\ ~cfg.force
  /\ ~cfg.skip_tokens
  /\ decision = "skip"
  /\ Len(matched_icons) = 2

\* ------------------------------------------------------------------ C11
\* C11: no step of a batch run removes a document; a step that creates or
\* changes a document is the processing of a matched icon and touches only the
\* document whose id is that icon's name with the run's release tag; every
\* other document, of this or another release, written in this or an earlier
\* run, is left as it was, whether or not the icon being processed fails.
C11_OnlyCurrentDocumentWritten ==
  [][/\ DOMAIN es \subseteq DOMAIN es'
     /\ \A id \in DOMAIN es' :
          (id \notin DOMAIN es \/ es'[id] # es[id]) =>
            /\ pc = "icons"
            /\ id = DocId(matched_icons[idx][2], cfg.latest_tag)
            /\ es'[id].release_tag = cfg.latest_tag]_vars

C11_Witness ==
  /\ ended = "summary"
  /\ cfg.index
  /\ \E i \in 1..Len(results) : Writes(i) # {} /\ results[i].indexed
  /\ \E id \in DOMAIN es : id[2] # cfg.latest_tag
  /\ \E id \in DOMAIN es : id[2] = cfg.latest_tag

\* ===================================================== the search service
\* longest explicit field list of a request / most hits in an engine answer
MaxFields == 2
MaxHits == 2

\* valid_fields of the search handler, in its order
valid_fields ==
  <<"icon_image_embedding", "icon_svg_embedding",
    "token_image_embedding", "token_svg_embedding">>

RangeOf(seq) == {seq[i] : i \in DOMAIN seq}

\* [f for f in search_request.fields if f in valid_fields]
KnownEntries(list) == SelectSeq(list, LAMBDA f : f \in RangeOf(valid_fields))

\* mutant of fields_to_search: the variant filter is consulted first
fields_to_search_VariantFirst(fields, icon_type) ==
  IF icon_type = "icon" THEN <<"icon_image_embedding", "icon_svg_embedding">>
  ELSE IF icon_type = "token" THEN <<"token_image_embedding", "token_svg_embedding">>
  ELSE IF Len(KnownEntries(fields.list)) = 0 THEN valid_fields
  ELSE KnownEntries(fields.list)

\* mutant of fields_to_search: an explicit list without a known entry selects
\* nothing
fields_to_search_NoFallback(fields, icon_type) ==
  IF fields.given /\ Len(fields.list) > 0 THEN KnownEntries(fields.list)
  ELSE IF icon_type = "icon" THEN <<"icon_image_embedding", "icon_svg_embedding">>
  ELSE IF icon_type = "token" THEN <<"token_image_embedding", "token_svg_embedding">>
  ELSE valid_fields

\* mutant of fields_to_search: the variant filter is ignored
fields_to_search_NoVariant(fields, icon_type) ==
  IF fields.given /\ Len(KnownEntries(fields.list)) > 0
  THEN KnownEntries(fields.list)
  ELSE valid_fields

\* the search handler's choice of fields_to_search for an image or svg query
fields_to_search(fields, icon_type) ==
  LET chosen ==
        IF fields.given /\ Len(fields.list) > 0
        THEN KnownEntries(fields.list)
        ELSE IF icon_type = "icon"
        THEN <<"icon_image_embedding", "icon_svg_embedding">>
        ELSE IF icon_type = "token"
        THEN <<"token_image_embedding", "token_svg_embedding">>
        ELSE valid_fields
  IN IF Len(chosen) = 0 THEN valid_fields ELSE chosen

\* icon_type_filter, as the list attached to a clause: empty when the request
\* has no icon_type
icon_type_filter(icon_type) ==
  IF icon_type # None THEN <<[term |-> icon_type]>> ELSE << >>

\* one KNN clause of the search body
KnnClause(field, embeddings, filter) ==
  [field |-> field, query_vector |-> embeddings, k |-> 10,
   num_candidates |-> 100, filter |-> filter]

\* mutant of KnnClauses: only the first selected field is searched
KnnClauses_FirstOnly(fields, embeddings) ==
  <<KnnClause(fields[1], embeddings, << >>)>>

\* knn_queries: one clause per entry of fields_to_search
KnnClauses(fields, embeddings) ==
  [i \in 1..Len(fields) |-> KnnClause(fields[i], embeddings, << >>)]

\* the vector a model returns for a query
Encode(type, query) == <<type, query>>

\* mutant of SparseEmbeddings: a failed call leaves a token map behind
SparseEmbeddings_KeptOnRaise(sparse) ==
  IF sparse \in {"tokens", "raise"} THEN [present |-> TRUE, tokens |-> {"t1"}]
  ELSE [present |-> FALSE, tokens |-> {}]

\* sparse_embeddings after the ELSER call: None when the call raised or gave no
\* inference result, else the predicted token map (its keys)
SparseEmbeddings(sparse) ==
  CASE sparse = "tokens" -> [present |-> TRUE, tokens |-> {"t1"}]
    [] sparse = "empty" -> [present |-> TRUE, tokens |-> {}]
    [] OTHER -> [present |-> FALSE, tokens |-> {}]

\* truth value of sparse_embeddings in "and sparse_embeddings"
Truthy(sparse_embeddings) ==
  sparse_embeddings.present /\ sparse_embeddings.tokens # {}

NoBody == [size |-> 0, query |-> << >>, knn_shape |-> "none", knn |-> << >>]

\* mutant of search_body: the hybrid KNN clause goes out without the filter
search_body_UnfilteredKnn(req, embeddings, sparse_embeddings) ==
  IF req.type = "text" /\ Truthy(sparse_embeddings)
  THEN [size |-> 50,
        query |-> <<[should |-> <<[text_expansion |-> "text_embedding_sparse",
                                   model_text |-> req.query]>>,
                     filter |-> icon_type_filter(req.icon_type)]>>,
        knn_shape |-> "single",
        knn |-> <<KnnClause("text_embedding", embeddings, << >>)>>]
  ELSE [size |-> 50, query |-> << >>, knn_shape |-> "single",
        knn |-> <<KnnClause("text_embedding", embeddings,
                            icon_type_filter(req.icon_type))>>]

\* search_body: query is the bool query (absent: empty), knn the clause or
\* the list of clauses
search_body(req, embeddings, sparse_embeddings) ==
  IF req.type = "text" /\ Truthy(sparse_embeddings)
  THEN [size |-> 50,
        query |-> <<[should |-> <<[text_expansion |-> "text_embedding_sparse",
                                   model_text |-> req.query]>>,
                     filter |-> icon_type_filter(req.icon_type)]>>,
        knn_shape |-> "single",
        knn |-> <<KnnClause("text_embedding", embeddings,
                            icon_type_filter(req.icon_type))>>]
  ELSE IF req.type = "image" \/ req.type = "svg"
  THEN LET selected == fields_to_search(req.fields, req.icon_type)
       IN [size |-> 50, query |-> << >>,
           knn_shape |-> IF Len(selected) = 1 THEN "single" ELSE "list",
           knn |-> KnnClauses(selected, embeddings)]
  ELSE [size |-> 50, query |-> << >>, knn_shape |-> "single",
        knn |-> <<KnnClause("text_embedding", embeddings,
                            icon_type_filter(req.icon_type))>>]

\* mutant of verify_api_key: configured keys are not looked at
verify_api_key_AdmitsAll(keys, api_key) == "admitted"

\* verify_api_key: api_key is request.headers.get(API_KEY_HEADER), None
\* when the header is missing
verify_api_key(keys, api_key) ==
  IF keys = {} THEN "admitted"
  ELSE IF api_key = None \/ api_key = Empty THEN "required"
  ELSE IF api_key \notin keys THEN "invalid"
  ELSE "admitted"

\* an HTTPException answered to the caller
ErrorResponse(status, handled) ==
  [status |-> status, handled |-> handled, has_results |-> FALSE,
   results |-> << >>, total |-> NoTotal]

\* base64, image and svg payloads that the decoder and rasterizer accept
Decodable(query) == query # "bad"

\* mutant of SearchResult: the score is not taken from the hit
SearchResult_NoScore(hit) ==
  [icon_name |-> IF hit.icon_name \notin {None, Empty} THEN hit.icon_name ELSE hit.id,
   score |-> 0]

\* SearchResult(icon_name=source.get("icon_name") or hit.get("_id", ""), score=...)
SearchResult(hit) ==
  [icon_name |-> IF hit.icon_name \notin {None, Empty} THEN hit.icon_name ELSE hit.id,
   score |-> hit.score]

\* mutant of PayloadChecked: the payload is not looked at before the search
PayloadChecked_Never(req) == TRUE

\* the embedding step of an image or svg query succeeds
PayloadChecked(req) == req.type = "text" \/ Decodable(req.query)

\* the search handler: the response and the requests sent to the engine
search(req, es_client, answer) ==
  IF ~es_client THEN [response |-> ErrorResponse(500, TRUE), log |-> << >>]
  ELSE IF ~PayloadChecked(req)
  THEN [response |-> ErrorResponse(400, TRUE), log |-> << >>]
  ELSE
    LET embeddings == Encode(req.type, req.query)
        sparse_embeddings ==
          IF req.type = "text" THEN SparseEmbeddings(answer.sparse)
          ELSE SparseEmbeddings("none")
        infer == IF req.type = "text"
                 THEN <<[op |-> "infer", body |-> NoBody]>> ELSE << >>
        body == search_body(req, embeddings, sparse_embeddings)
        sent == Append(infer, [op |-> "search", body |-> body])
    IN IF answer.search = "raise"
       THEN [response |-> ErrorResponse(500, TRUE), log |-> sent]
       ELSE [response |->
               [status |-> 200, handled |-> TRUE, has_results |-> TRUE,
                results |-> [i \in 1..Len(answer.hits) |-> SearchResult(answer.hits[i])],
                total |-> answer.total],
             log |-> sent]

\* ------------------------------------------------------ requests and answers
Protected == {"/embed", "/embed-image", "/embed-svg", "/search"}
Endpoints == Protected \cup {"/health"}
ApiKeyHeaders == {None, Empty, "k1", "k2"}
KeySets == {{}, {"k1"}, {Empty, "k1"}}
FieldNames == {"icon_image_embedding", "token_svg_embedding", "other"}
Hits ==
  {[id |-> "a_v1", icon_name |-> "a", score |-> 2],
   [id |-> "b_v1", icon_name |-> None, score |-> 1]}

RECURSIVE ListsUpTo(_, _)
ListsUpTo(S, n) ==
  IF n = 0 THEN {<< >>}
  ELSE LET shorter == ListsUpTo(S, n - 1)
       IN shorter \cup {Append(l, x) : l \in {y \in shorter : Len(y) = n - 1}, x \in S}

FieldLists ==
  {NoFields} \cup {[given |-> TRUE, list |-> l] : l \in ListsUpTo(FieldNames, MaxFields)}

SearchRequests ==
  [endpoint : {"/search"}, api_key : ApiKeyHeaders, type : {"text", "image", "svg"},
   query : {"q", "bad"}, icon_type : {None, "icon", "token"}, fields : FieldLists]

OtherRequests ==
  {[NoRequest EXCEPT !.endpoint = e, !.api_key = k] :
     e \in Endpoints \ {"/search"}, k \in ApiKeyHeaders}

\* what the engine answers to the requests of one search
Answers(type) ==
  {[sparse |-> sp, search |-> "raise", hits |-> << >>, total |-> NoTotal] :
     sp \in IF type = "text" THEN {"raise", "no_results", "empty", "tokens"}
            ELSE {"none"}}
  \cup
  {[sparse |-> sp, search |-> "ok", hits |-> h,
    total |-> [shape |-> sh, value |-> Len(h)]] :
     sp \in IF type = "text" THEN {"raise", "no_results", "empty", "tokens"}
            ELSE {"none"},
     h \in ListsUpTo(Hits, MaxHits), sh \in {"count", "object"}}

\* ----------------------------------------------------------- the service
\* module load: load_api_keys and the creation of es_client
InitSearch ==
  /\ BatchAtRest
  /\ NormAtRest
  /\ valid_api_keys \in KeySets
  /\ search_es_client \in BOOLEAN
  /\ spc = "idle"
  /\ request = NoRequest
  /\ response = NoResponse
  /\ engine_log = << >>
  /\ outcome = NoOutcome

\* a request arrives; routes with Depends(verify_api_key) go through it first
Receive ==
  /\ spc = "idle"
  /\ \E r \in SearchRequests \cup OtherRequests :
       /\ request' = r
       /\ spc' = IF r.endpoint \in Protected THEN "verify" ELSE "handler"
  /\ UNCHANGED <<valid_api_keys, search_es_client, response, engine_log, outcome>>
  /\ UNCHANGED <<vars, normVars>>

\* the dependency verify_api_key: 401 or on to the handler
VerifyApiKey ==
  /\ spc = "verify"
  /\ IF verify_api_key(valid_api_keys, request.api_key) = "admitted"
     THEN spc' = "handler" /\ UNCHANGED response
     ELSE spc' = "responded" /\ response' = ErrorResponse(401, FALSE)
  /\ UNCHANGED <<valid_api_keys, search_es_client, request, engine_log, outcome>>
  /\ UNCHANGED <<vars, normVars>>

\* the handler of /search
Search ==
  /\ spc = "handler"
  /\ request.endpoint = "/search"
  /\ \E answer \in Answers(request.type) :
       LET done == search(request, search_es_client, answer)
       IN /\ response' = done.response
          /\ engine_log' = done.log
          \* the answers are those to the requests that were sent
          /\ outcome' =
               IF done.log = << >> THEN NoOutcome
               ELSE answer
  /\ spc' = "responded"
  /\ UNCHANGED <<valid_api_keys, search_es_client, request>>
  /\ UNCHANGED <<vars, normVars>>

\* the handlers of /embed, /embed-image and /embed-svg and health_check
OtherHandler ==
  /\ spc = "handler"
  /\ request.endpoint # "/search"
  /\ response' = [NoResponse EXCEPT !.status = 200, !.handled = TRUE]
  /\ spc' = "responded"
  /\ UNCHANGED <<valid_api_keys, search_es_client, request, engine_log, outcome>>
  /\ UNCHANGED <<vars, normVars>>

\* the response is sent and the service waits for the next request
Reply ==
  /\ spc = "responded"
  /\ spc' = "idle"
  /\ request' = NoRequest
  /\ response' = NoResponse
  /\ engine_log' = << >>
  /\ outcome' = NoOutcome
  /\ UNCHANGED <<valid_api_keys, search_es_client>>
  /\ UNCHANGED <<vars, normVars>>

NextSearch ==
  \/ Receive
  \/ VerifyApiKey
  \/ Search
  \/ OtherHandler
  \/ Reply

SpecSearch == InitSearch /\ [][NextSearch]_<<vars, searchVars>>

\* ------------------------------------- vocabulary of the search claims
VectorQuery == request.type \in {"image", "svg"}
TextQuery == request.type = "text"

\* the search request the handler sent to the engine, if it sent one
SearchSent == engine_log # << >> /\ engine_log[Len(engine_log)].op = "search"
SentBody == engine_log[Len(engine_log)].body
SentFields == [i \in 1..Len(SentBody.knn) |-> SentBody.knn[i].field]

RECURSIVE KnownInOrder(_)
KnownInOrder(list) ==
  IF list = << >> THEN << >>
  ELSE IF Head(list) \in EmbeddingFields
  THEN <<Head(list)>> \o KnownInOrder(Tail(list))
  ELSE KnownInOrder(Tail(list))

ExplicitList == request.fields.given /\ Len(request.fields.list) > 0

\* ------------------------------------------------------------------ C12
\* C12: the search request of an image or svg query names at least one field
\* and only fields among the four embedding fields; with a non-empty explicit
\* list none of whose entries is known, it names the four fields.
C12_SelectionNeverEmpty ==
  (VectorQuery /\ SearchSent) =>
    /\ Len(SentFields) > 0
    /\ RangeOf(SentFields) \subseteq EmbeddingFields
    /\ (ExplicitList /\ KnownInOrder(request.fields.list) = << >>) =>
         (Len(SentFields) = 4 /\ RangeOf(SentFields) = EmbeddingFields)

C12_Witness ==
  /\ VectorQuery /\ SearchSent
  /\ request.fields.list = <<"other", "other">>
  /\ request.icon_type = "icon"
  /\ Len(SentFields) = 4

\* ------------------------------------------------------------------ C13
\* C13: when the explicit list of an image or svg query has a known entry, the
\* fields searched are its known entries in their order, whatever the variant
\* filter.
C13_ExplicitListWins ==
  (VectorQuery /\ SearchSent /\ KnownInOrder(request.fields.list) # << >>) =>
    SentFields = KnownInOrder(request.fields.list)

C13_Witness ==
  /\ VectorQuery /\ SearchSent
  /\ request.fields.list = <<"token_svg_embedding", "other">>
  /\ request.icon_type = "icon"
  /\ SentFields = <<"token_svg_embedding">>

\* ------------------------------------------------------------------ C14
\* C14: without an explicit list (absent or empty) an image or svg query
\* searches the two icon fields under the filter icon, the two token fields
\* under the filter token, and the four fields without a filter.
C14_VariantDefault ==
  (VectorQuery /\ SearchSent /\ ~ExplicitList) =>
    /\ request.icon_type = "icon" =>
         (Len(SentFields) = 2 /\ RangeOf(SentFields) = IconFields)
    /\ request.icon_type = "token" =>
         (Len(SentFields) = 2 /\ RangeOf(SentFields) = TokenFields)
    /\ request.icon_type = None =>
         (Len(SentFields) = 4 /\ RangeOf(SentFields) = EmbeddingFields)

C14_Witness ==
  /\ VectorQuery /\ SearchSent
  /\ request.fields.given /\ request.fields.list = << >>
  /\ request.icon_type = "token"
  /\ RangeOf(SentFields) = TokenFields

\* ------------------------------------------------------------------ C15
\* C15: the search request of an image or svg query has one KNN clause per
\* selected field, in the order of the selection, as a single clause when one
\* field is selected and as a list otherwise; every clause has the query's
\* vector, k = 10 and num_candidates = 100.
C15_OneClausePerField ==
  (VectorQuery /\ SearchSent) =>
    LET selected == fields_to_search(request.fields, request.icon_type)
        knn == SentBody.knn
    IN /\ Len(knn) = Len(selected)
       /\ \A i \in 1..Len(knn) : knn[i].field = selected[i]
       /\ SentBody.knn_shape = IF Len(selected) = 1 THEN "single" ELSE "list"
       /\ \A i \in 1..Len(knn) :
            /\ knn[i].query_vector = Encode(request.type, request.query)
            /\ knn[i].k = 10
            /\ knn[i].num_candidates = 100
       /\ \A i, j \in 1..Len(knn) :
            /\ knn[i].query_vector = knn[j].query_vector
            /\ knn[i].k = knn[j].k
            /\ knn[i].num_candidates = knn[j].num_candidates

C15_Witness ==
  /\ VectorQuery /\ SearchSent
  /\ SentBody.knn_shape = "list"
  /\ SentFields = <<"token_svg_embedding", "icon_image_embedding">>

\* ------------------------------------------------------------------ C16
\* C16: the search request of a text query has a single KNN clause on
\* text_embedding; it has the text_expansion should-clause exactly when the
\* ELSER call gave a non-empty token map; with a variant filter the term filter
\* is on the KNN clause and, when present, on the bool query; without one no
\* clause has a filter.
C16_TextBody ==
  (TextQuery /\ SearchSent) =>
    /\ SentBody.knn_shape = "single"
    /\ Len(SentBody.knn) = 1
    /\ SentBody.knn[1].field = "text_embedding"
    /\ SentBody.knn[1].query_vector = Encode("text", request.query)
    /\ Len(SentBody.query) <= 1
    /\ SentBody.query # << >> <=> outcome.sparse = "tokens"
    /\ \A q \in RangeOf(SentBody.query) :
         /\ Len(q.should) = 1
         /\ q.should[1].text_expansion = "text_embedding_sparse"
         /\ q.should[1].model_text = request.query
    /\ LET expected == IF request.icon_type = None THEN << >>
                       ELSE <<[term |-> request.icon_type]>>
       IN /\ SentBody.knn[1].filter = expected
          /\ \A q \in RangeOf(SentBody.query) : q.filter = expected

C16_Witness ==
  /\ TextQuery /\ SearchSent
  /\ outcome.sparse = "tokens"
  /\ request.icon_type = "token"
  /\ SentBody.query # << >>
  /\ response.status = 200

\* ------------------------------------------------------------------ C17
\* C17: a text search whose ELSER call raised still sends its search request,
\* with the KNN clause and no bool query, and when the engine answers it the
\* response is 200 with one result per hit.
C17_SparseFailureIsSoft ==
  (spc = "responded" /\ TextQuery /\ outcome.sparse = "raise") =>
    /\ SearchSent
    /\ SentBody.query = << >>
    /\ Len(SentBody.knn) = 1
    /\ outcome.search = "ok" =>
         /\ response.status = 200
         /\ response.has_results
         /\ Len(response.results) = Len(outcome.hits)

C17_Witness ==
  /\ spc = "responded" /\ TextQuery
  /\ outcome.sparse = "raise"
  /\ response.status = 200
  /\ Len(response.results) = 2

\* ------------------------------------------------------------------ C18
\* C18: a response with results has one result per hit of the engine's
\* answer, in the answer's order, each with its hit's score and its hit's
\* icon_name (the id when the source has none), and its total is the answer's
\* total in the answer's shape.
C18_ResultsVerbatim ==
  response.has_results =>
    /\ outcome.search = "ok"
    /\ Len(response.results) = Len(outcome.hits)
    /\ \A i \in 1..Len(outcome.hits) :
         /\ response.results[i].score = outcome.hits[i].score
         /\ response.results[i].icon_name =
              IF outcome.hits[i].icon_name = None THEN outcome.hits[i].id
              ELSE outcome.hits[i].icon_name
    /\ response.total = outcome.total

C18_Witness ==
  /\ response.has_results
  /\ response.total.shape = "object"
  /\ Len(response.results) = 2
  /\ response.results[1].score < response.results[2].score

\* ------------------------------------------------------------------ C19
\* C19 (as stated): a handled search with an undecodable image or svg payload
\* is answered 400 without a request to the engine; one with the engine
\* missing or its search failing is answered 500; no response other than 200
\* has results.
HandledSearch ==
  spc = "responded" /\ request.endpoint = "/search" /\ response.handled
BadPayload == VectorQuery /\ ~Decodable(request.query)

C19_ErrorsDistinguished ==
  HandledSearch =>
    /\ BadPayload => (response.status = 400 /\ engine_log = << >>)
    /\ (~search_es_client \/ outcome.search = "raise") => response.status = 500
    /\ response.status # 200 => (~response.has_results /\ response.results = << >>)

\* C19 (amended): the missing engine is reported first, as 500, whatever the
\* payload; with the engine configured the undecodable payload is answered 400;
\* in both cases nothing is sent to the engine.
C19_ErrorsDistinguishedEngineFirst ==
  HandledSearch =>
    /\ ~search_es_client => (response.status = 500 /\ engine_log = << >>)
    /\ (search_es_client /\ BadPayload) =>
         (response.status = 400 /\ engine_log = << >>)
    /\ outcome.search = "raise" => (response.status = 500 /\ SearchSent)
    /\ response.status # 200 => (~response.has_results /\ response.results = << >>)
    /\ response.status = 200 <=> outcome.search = "ok"

C19_Witness ==
  /\ HandledSearch
  /\ search_es_client
  /\ BadPayload
  /\ response.status = 400

MaxPaths == 2
MaxPixels == 3
TargetPixels == 2

\* The opening tag of a path element, by what the canonicalization looks at:
\* lead is what follows "<path" (nothing, a space, or other whitespace such as
\* a newline, which also separates the attributes); d is the d attribute
\* (absent, a value without a space, a value with a space); fill is a fill
\* attribute; fill_like is another attribute whose text holds "fill="
\* (data-fill="..."); close is ">" or "/>".
BareTags ==
  [lead : {"none"}, d : {"none"}, fill : {FALSE}, fill_like : {FALSE},
   close : {">", "/>"}]

AttributeTags ==
  {t \in [lead : {"space", "newline"}, d : {"none", "plain", "spaced"},
          fill : BOOLEAN, fill_like : BOOLEAN, close : {">"}] :
     t.d # "none" \/ t.fill \/ t.fill_like}

PathTags == BareTags \cup AttributeTags

\* 'fill=' in full_match
HasFillText(tag) == tag.fill \/ tag.fill_like

\* ' ' in full_match
HasSpace(tag) == tag.lead = "space" \/ tag.d = "spaced"

\* full_match.replace('<path ', '<path fill="black" ', 1) finds '<path '
HasPathSpace(tag) == tag.lead = "space"

\* full_match.replace('<path>', '<path fill="black">', 1) finds '<path>'
HasBarePath(tag) == tag.lead = "none" /\ tag.close = ">"

\* add_fill_to_path: the tag and the number of fill="black" put into it
add_fill_to_path(tag) ==
  IF ~HasFillText(tag)
  THEN IF HasSpace(tag)
       THEN [tag |-> tag, added |-> IF HasPathSpace(tag) THEN 1 ELSE 0]
       ELSE [tag |-> tag, added |-> IF HasBarePath(tag) THEN 1 ELSE 0]
  ELSE [tag |-> tag, added |-> 0]

\* number of fill attributes of a path element after canonicalization
FillAttributes(path) == (IF path.tag.fill THEN 1 ELSE 0) + path.added

\* The root tag of an svg: viewBox absent ("none"), four numbers separated by
\* spaces ("four") or separated by commas ("commas"); width and height absent
\* ("none"), plain numbers or numbers with a unit.
Svgs ==
  [viewBox : {"none", "four", "commas"}, size : {"none", "plain", "unit"},
   paths : ListsUpTo(PathTags, MaxPaths)]

\* preprocessing of embed_svg and of the svg branch of search: the background
\* rect, then the path fills
canonicalize_svg(svg) ==
  LET boxed == svg.viewBox = "four"
  IN [viewBox |-> IF svg.viewBox = "none" THEN "none" ELSE "own",
      rects |-> IF boxed THEN 1 ELSE 0,
      rect_box |-> IF boxed THEN "own" ELSE "none",
      paths |-> [k \in 1..Len(svg.paths) |-> add_fill_to_path(svg.paths[k])]]

\* svg_processor.normalize_svg: the viewBox of the rewritten root tag
normalize_svg(svg) ==
  [viewBox |-> IF svg.viewBox # "none" THEN "own"
               ELSE IF svg.size # "none" THEN "synthesized"
               ELSE "default",
   rects |-> 0,
   rect_box |-> "none",
   paths |-> [k \in 1..Len(svg.paths) |-> [tag |-> svg.paths[k], added |-> 0]]]

\* luminance values of the pixels given
Levels == {0, 10, 200, 255}

\* an image of one row: its pixels from left to right
Images == ListsUpTo(Levels, MaxPixels) \ {<< >>}

RECURSIVE SumOf(_)
SumOf(arr) == IF arr = << >> THEN 0 ELSE Head(arr) + SumOf(Tail(arr))

MinOf(arr) == CHOOSE m \in RangeOf(arr) : \A v \in RangeOf(arr) : m <= v
MaxOf(arr) == CHOOSE m \in RangeOf(arr) : \A v \in RangeOf(arr) : m >= v

\* detect_background_color on a row of at most sample_size pixels: the row is
\* sampled four times as top and bottom edge and its two ends twice each as
\* left and right edge; the mean of the samples is compared with 128
detect_background_color(gray) ==
  4 * SumOf(gray) + 2 * gray[1] + 2 * gray[Len(gray)] < 128 * (4 * Len(gray) + 4)

\* img_array = 255 - img_array
Invert(arr) == [k \in 1..Len(arr) |-> 255 - arr[k]]

\* mutant of Stretch: the array is left as it is
Stretch_Identity(arr, min_val, max_val) == arr

\* ((img_array - min_val) / (max_val - min_val)) * 255, then astype(uint8)
Stretch(arr, min_val, max_val) ==
  [k \in 1..Len(arr) |-> ((arr[k] - min_val) * 255) \div (max_val - min_val)]

\* mutant of Fill: an image without contrast is made black
Fill_Black(arr) == [k \in 1..Len(arr) |-> 0]

\* img_array.fill(255)
Fill(arr) == [k \in 1..Len(arr) |-> 255]

\* np.clip(img_array, 0, 255)
Clip(arr) ==
  [k \in 1..Len(arr) |-> IF arr[k] < 0 THEN 0 ELSE IF arr[k] > 255 THEN 255 ELSE arr[k]]

\* what resize(..., LANCZOS) can make of a row: a row without contrast stays
\* as it is at the new size; otherwise each new pixel is a clipped weighted
\* mean of the old ones
Resized(arr) ==
  IF MinOf(arr) = MaxOf(arr)
  THEN {[k \in 1..TargetPixels |-> arr[1]]}
  ELSE [1..TargetPixels -> RangeOf(arr) \cup {0, 255}]

\* normalize_search_image up to the resize
normalize_search_image(gray) ==
  LET is_dark_background == detect_background_color(gray)
      img_array == IF is_dark_background THEN Invert(gray) ELSE gray
      min_val == MinOf(img_array)
      max_val == MaxOf(img_array)
      contrast == max_val > min_val
  IN [is_dark_background |-> is_dark_background,
      inverted |-> img_array,
      min_val |-> min_val,
      max_val |-> max_val,
      divisor |-> IF contrast THEN max_val - min_val ELSE -1,
      rescaled |-> Clip(IF contrast THEN Stretch(img_array, min_val, max_val)
                        ELSE Fill(img_array)),
      resized |-> << >>]

\* -------------------------------------------------- the functions, applied
InitNorm ==
  /\ BatchAtRest
  /\ SearchAtRest
  /\ npc = "input"
  /\ \/ svg_content \in Svgs /\ image_in = NoImage
     \/ svg_content = NoSvg /\ image_in \in Images
  /\ svg_result = NoSvgResult
  /\ image_result = NoImageResult

\* embed_svg, the svg branch of search
CanonicalizeSvg ==
  /\ npc = "input"
  /\ image_in = NoImage
  /\ svg_result' = canonicalize_svg(svg_content)
  /\ npc' = "canonicalize_svg"
  /\ UNCHANGED <<svg_content, image_in, image_result>>
  /\ UNCHANGED <<vars, searchVars>>

\* svg_processor.svg_to_image
NormalizeSvg ==
  /\ npc = "input"
  /\ image_in = NoImage
  /\ svg_result' = normalize_svg(svg_content)
  /\ npc' = "normalize_svg"
  /\ UNCHANGED <<svg_content, image_in, image_result>>
  /\ UNCHANGED <<vars, searchVars>>

\* embed_image, the image branch of search
NormalizeSearchImage ==
  /\ npc = "input"
  /\ image_in # NoImage
  /\ \E out \in Resized(normalize_search_image(image_in).rescaled) :
       image_result' = [normalize_search_image(image_in) EXCEPT !.resized = out]
  /\ npc' = "normalize_search_image"
  /\ UNCHANGED <<svg_content, svg_result, image_in>>
  /\ UNCHANGED <<vars, searchVars>>

NextNorm ==
  \/ CanonicalizeSvg
  \/ NormalizeSvg
  \/ NormalizeSearchImage

SpecNorm == InitNorm /\ [][NextNorm]_<<vars, searchVars, normVars>>

\* ------------------------------------------------------------------ C21
\* C21 (as stated): after canonicalization every path element that had no fill
\* attribute has exactly one, the one put in, and every path element that had a
\* fill attribute is as it was.
C21_EveryPathFilledOnce ==
  npc = "canonicalize_svg" =>
    /\ Len(svg_result.paths) = Len(svg_content.paths)
    /\ \A k \in 1..Len(svg_result.paths) :
         /\ svg_result.paths[k].tag = svg_content.paths[k]
         /\ FillAttributes(svg_result.paths[k]) = 1
         /\ svg_content.paths[k].fill => svg_result.paths[k].added = 0

\* ------------------------------------------------------------------ C22
\* C22 (as stated): after canonicalization the markup has exactly one
\* background rect, sized to the viewBox of the input or, without one, to the
\* viewBox made from width and height or, without those, to the default.
DeterminedViewBox(svg) ==
  IF svg.viewBox # "none" THEN "own"
  ELSE IF svg.size # "none" THEN "synthesized"
  ELSE "default"

C22_BackgroundRectAlways ==
  npc = "canonicalize_svg" =>
    /\ svg_result.rects = 1
    /\ svg_result.rect_box = DeterminedViewBox(svg_content)

\* ------------------------------------------------------------------ C23
Normalized == npc = "normalize_search_image"

NoContrast == MinOf(image_in) = MaxOf(image_in)

\* C23: an image whose pixels are all alike is not rescaled, so nothing is
\* divided by zero, and every pixel of the output is 255.
C23_NoContrastAllWhite ==
  (Normalized /\ NoContrast) =>
    /\ image_result.divisor = -1
    /\ RangeOf(image_result.rescaled) = {255}
    /\ Len(image_result.rescaled) = Len(image_in)
    /\ RangeOf(image_result.resized) = {255}
    /\ Len(image_result.resized) = TargetPixels

C23_Witness ==
  /\ Normalized
  /\ NoContrast
  /\ image_in[1] = 10
  /\ image_result.is_dark_background
  /\ Len(image_in) > 1

\* ------------------------------------------------------------------ C24
\* C24: an image with contrast is rescaled linearly, after the inversion where
\* there is one and before the resize: the least value becomes 0, the greatest
\* 255, every value lies in 0..255 and keeps its place between them.
C24_ContrastFullRange ==
  (Normalized /\ ~NoContrast) =>
    LET r == image_result
        a == r.inverted
        b == r.rescaled
    IN /\ a = (IF r.is_dark_background THEN Invert(image_in) ELSE image_in)
       /\ r.min_val = MinOf(a) /\ r.max_val = MaxOf(a)
       /\ r.divisor = r.max_val - r.min_val
       /\ r.divisor > 0
       /\ Len(b) = Len(a)
       /\ \A k \in 1..Len(a) :
            /\ b[k] \in 0..255
            /\ a[k] = r.min_val => b[k] = 0
            /\ a[k] = r.max_val => b[k] = 255
            /\ b[k] * r.divisor <= (a[k] - r.min_val) * 255
            /\ (a[k] - r.min_val) * 255 < (b[k] + 1) * r.divisor
            /\ \A j \in 1..Len(a) : a[j] <= a[k] => b[j] <= b[k]
       /\ r.resized \in Resized(b)
       /\ RangeOf(r.resized) \subseteq 0..255

C24_Witness ==
  /\ Normalized
  /\ image_in = <<10, 200, 10>>
  /\ image_result.is_dark_background
  /\ image_result.inverted = <<245, 55, 245>>
  /\ image_result.rescaled = <<255, 0, 255>>

\* ------------------------------------------------------------------ C25
\* C25: a run without --index sends no write (and no existence probe) to the
\* search engine and never writes the version marker, whatever its render and
\* embed steps did; the index and the marker file stay as they were.
C25_DryRunWritesNothing ==
  /\ [](~cfg.index =>
          /\ \A p \in 1..Len(calls) : calls[p].op \notin {"write", "exists"}
          /\ version_writes = << >>)
  /\ [][(~cfg.index /\ ~cfg'.index) => (es' = es /\ marker' = marker)]_vars

C25_Witness ==
  /\ ended = "summary"
  /\ ~cfg.index
  /\ Len(results) = 2
  /\ SomeClean
  /\ SomeError
  /\ marker = Absent

\* ------------------------------------------------------------------ C26
\* C26: no call is made twice. For each processed icon there is at most one
\* renderer call and at most one embedder call per embedding kind, at most one
\* existence probe and at most one document write; every call that failed is
\* counted among the icon's errors.
C26_NoCallRepeated ==
  /\ Cardinality({<<calls[p].idx, calls[p].op, calls[p].kind>> : p \in 1..Len(calls)})
       = Len(calls)
  /\ \A p \in 1..Len(calls) :
       /\ calls[p].op \in {"render", "embed"} => calls[p].kind \in Kinds
       /\ calls[p].op \in {"exists", "write"} => calls[p].kind = "document"
       /\ calls[p].op \in {"render", "embed", "exists", "write"}
  /\ \A i \in 1..Len(results) :
       Cardinality({p \in 1..Len(calls) : calls[p].idx = i /\ ~calls[p].ok})
         <= results[i].errors

C26_Witness ==
  \E i \in 1..Len(results) :
    /\ \E p \in CallsOf(i, {"render"}) : ~calls[p].ok /\ calls[p].kind = "icon_image"
    /\ ~results[i].raised
    /\ results[i].errors = 1
    /\ CallsOf(i, {"embed"}) # {}
    /\ Writes(i) # {}

\* ------------------------------------------------------------------ C27
\* place of a call within the processing of one icon
Rank(c) ==
  CASE c.op = "render" /\ c.kind = "icon_image" -> 1
    [] c.op = "embed" /\ c.kind = "icon_image" -> 2
    [] c.op = "embed" /\ c.kind = "icon_svg" -> 3
    [] c.op = "render" /\ c.kind = "token_image" -> 4
    [] c.op = "embed" /\ c.kind = "token_image" -> 5
    [] c.op = "render" /\ c.kind = "token_svg" -> 6
    [] c.op = "embed" /\ c.kind = "token_svg" -> 7
    [] c.op = "exists" -> 8
    [] c.op = "write" -> 9
    [] OTHER -> 0

\* C27: the calls of a run are made icon by icon in the order of the matched
\* list, every call for an icon before any call for the next one, and for one
\* icon in the order icon-image render, embed; icon-SVG embed; token-image
\* render, embed; token-SVG render, embed; existence probe, write. (Each call
\* is compared with the one after it: the order is transitive.)
C27_StrictlySequential ==
  /\ \A i \in 1..Len(results) : results[i].icon_name = matched_icons[i][2]
  /\ \A p \in 1..Len(calls) :
       /\ calls[p].idx \in 1..Len(results)
       /\ Rank(calls[p]) > 0
       /\ calls[p].target[1] = matched_icons[calls[p].idx][2]
  /\ \A p \in 1..(Len(calls) - 1) :
       \/ calls[p].idx < calls[p + 1].idx
       \/ /\ calls[p].idx = calls[p + 1].idx
          /\ Rank(calls[p]) < Rank(calls[p + 1])

C27_Witness ==
  /\ ended = "summary"
  /\ cfg.index /\ ~cfg.skip_tokens
  /\ Len(results) = 2
  /\ Len(calls) = 18

\* ------------------------------------------------------------------ C28
\* the manifest of the run, and the icon names of it whose filename a later
\* entry of the map names again
RunManifest == ManifestAt(cfg.latest_tag)

Shadowed(man) ==
  {man.map[i][1] : i \in {k \in 1..Len(man.map) :
                            \E j \in (k + 1)..Len(man.map) : man.map[j][2] = man.map[k][2]}}

Discovered == pc \in {"gate", "setup", "icons", "summary"} \/ ended \in {"skip", "setup", "summary"}

\* C28: when several icon names share a filename only the name seen last is
\* matched; the earlier names are not in the matched list, are not processed,
\* have no call made for them, and the completeness check asks for no document
\* of theirs.
C28_LastNameWins ==
  Discovered =>
    LET man == RunManifest
        shadowed == Shadowed(man)
    IN /\ \A k \in 1..Len(matched_icons) :
            /\ matched_icons[k][2] \notin shadowed
            /\ \E i \in 1..Len(man.map) :
                 /\ man.map[i] = <<matched_icons[k][2], matched_icons[k][3]>>
                 /\ \A j \in (i + 1)..Len(man.map) : man.map[j][2] # matched_icons[k][3]
       /\ \A i \in 1..Len(results) : results[i].icon_name \notin shadowed
       /\ \A p \in 1..Len(calls) : calls[p].target[1] \notin shadowed
       /\ (AtGate /\ check_result # "none" /\ check_fault = 0) =>
            (check_result = "true" <=>
               \A k \in 1..Len(man.svgs) :
                 \A i \in 1..Len(man.map) :
                   (man.map[i][2] = man.svgs[k][2] /\ man.map[i][1] \notin shadowed) =>
                     LET id == DocId(man.map[i][1], cfg.latest_tag)
                     IN /\ id \in DOMAIN es
                        /\ es[id].release_tag = cfg.latest_tag
                        /\ RequiredFields(cfg.skip_tokens) \subseteq es[id].fields)

C28_Witness ==
  /\ ended = "skip"
  /\ Shadowed(RunManifest) = {"a"}
  /\ Len(matched_icons) = 1
  /\ DocId("a", cfg.latest_tag) \notin DOMAIN es
  /\ DocId("b", cfg.latest_tag) \in DOMAIN es

\* ------------------------------------------------------------------ C29
\* C29: no step removes an embedding field from a document: a document stays,
\* and every field it has it has afterwards, in this run and in later ones,
\* also when the icon is processed again and a sub-step of it fails.
C29_FieldsNeverRemoved ==
  [][\A id \in DOMAIN es :
       /\ id \in DOMAIN es'
       /\ es[id].fields \subseteq es'[id].fields]_vars

C29_Witness ==
  /\ cfg.index
  /\ \E i \in 1..Len(results) :
       \E p \in Writes(i) :
         /\ calls[p].ok
         /\ calls[p].target \in DOMAIN es
         /\ calls[p].fields # es[calls[p].target].fields
         /\ calls[p].fields \subseteq es[calls[p].target].fields
         /\ results[i].errors > 0

\* ------------------------------------------------------------------ C30
\* C30: the completeness check runs on the whole matched list, before --limit
\* cuts it: at the gate the list is the full one whatever the limit, the check
\* answers for all of it, and Skip is taken only if every matched icon, those
\* beyond the limit included, has its complete document.
C30_CheckBeforeLimit ==
  AtGate =>
    LET all == MatchIcons(RunManifest)
    IN /\ matched_icons = all
       /\ (check_result # "none" /\ check_fault = 0) =>
            (check_result = "true" <=>
               EveryEntryComplete(es, all, cfg.latest_tag, cfg.skip_tokens))
       /\ decision = "skip" =>
            EveryEntryComplete(es, all, cfg.latest_tag, cfg.skip_tokens)

\* after a run with --limit 1 wrote the marker, the next run does not skip
C30_Witness ==
  /\ pc = "setup"
  /\ faults = 0
  /\ cfg.limit = 1
  /\ ~cfg.force
  /\ marker = cfg.latest_tag
  /\ Len(matched_icons) = 2
  /\ DocId(matched_icons[1][2], cfg.latest_tag) \in DOMAIN es
  /\ DocId(matched_icons[2][2], cfg.latest_tag) \notin DOMAIN es
  /\ check_result = "false"
  /\ decision = "process"

====
